---------------------------- MODULE Spec2Model ----------------------------
(***************************************************************************)
(* Model of the bidirectional mapping of dict_tricks.py: PairedDict (one   *)
(* direction, holding a reference to its inverse) and BijectiveMap (a      *)
(* ChainMap of a forward and a backward PairedDict).                       *)
(*                                                                         *)
(* A Python dict is modelled as a sequence of <<key, value>> pairs with    *)
(* pairwise distinct keys, in insertion order.  Objects live in a heap, a  *)
(* function from object ids to records [data, inverse, formed]; the id 0   *)
(* stands for None.  Operations that can raise return a record             *)
(* [h |-> heap after the call, err |-> "ok" or the name of the exception], *)
(* so that mutations made before an exception is raised stay visible.      *)
(***************************************************************************)
EXTENDS Integers, Sequences, FiniteSets, TLC

\* Largest key/value: keys and values are both drawn from 1..MaxKey, so that
\* the key set and the value set of a map may overlap.
MaxKey == 2
\* Longest list of pairs handed to a constructor.
MaxPairs == 3
\* Largest key/value and longest constructor list of the lookup program: a
\* forward key that is also the value of another forward key needs three keys.
MaxLookupKey == 3
MaxLookupPairs == 2
\* Most keyword arguments handed to update_new or updated.
MaxKwds == 1
\* Most DisplayTemporary instances, and how far below zero repeated calls of
\* end() may take an instance's count of active displays.
MaxDisplays == 2
MaxDepth == 2

Keys == 1..MaxKey
None == 0

VARIABLES
    heap,   \* object id -> [data, inverse, formed]
    bm,     \* BijectiveMap.maps: <<fwd id, bwd id>>, or << >> if there is none
    pd,     \* id of the caller's PairedDict built by the plain constructor, or None
    input,  \* the list of pairs of the constructor call, until the first set or delete
    threads,\* thread -> its position in the set or delete it is running
    dicts,  \* the plain dicts of a call of update_new, pop_new or updated
    displays,\* the DisplayTemporary class attributes and instances
    prev,   \* the heap when the last operation was called
    last    \* the last operation: [op, obj, key, value, result]

vars == <<heap, bm, pd, input, threads, dicts, displays, prev, last>>

-----------------------------------------------------------------------------
(* Python dict primitives *)

Has(d, k) == \E i \in 1..Len(d) : d[i][1] = k

Get(d, k) == d[CHOOSE i \in 1..Len(d) : d[i][1] = k][2]

\* dict.__setitem__: a present key keeps its position, a new key is appended
PlainSet(d, k, v) ==
    IF Has(d, k)
    THEN [i \in 1..Len(d) |-> IF d[i][1] = k THEN <<k, v>> ELSE d[i]]
    ELSE Append(d, <<k, v>>)

\* dict.__delitem__ of a present key
PlainDel(d, k) == SelectSeq(d, LAMBDA p : p[1] # k)

PairsOf(d) == {d[i] : i \in 1..Len(d)}

KeysOf(d) == {d[i][1] : i \in 1..Len(d)}

ValuesOf(d) == {d[i][2] : i \in 1..Len(d)}

Swap(P) == {<<p[2], p[1]>> : p \in P}

\* Mapping.__eq__: equal as sets of items, order ignored
DictEq(d1, d2) == PairsOf(d1) = PairsOf(d2)

Ok(h) == [h |-> h, err |-> "ok"]

Raise(h, e) == [h |-> h, err |-> e]

-----------------------------------------------------------------------------
(* dict_tricks helpers *)

_inv_dict_iter(to_invert) ==
    [i \in 1..Len(to_invert) |-> <<to_invert[i][2], to_invert[i][1]>>]

\* Variant: tests map1[map2[v]] == v for the items of map2 only, without
\* comparing the lengths.
is_inverse_dict_oneway(map1, map2) ==
    IF \A j \in 1..Len(map2) :
           Has(map1, map2[j][2]) /\ Get(map1, map2[j][2]) = map2[j][1]
    THEN "True" ELSE "False"

\* "True", "False", or "KeyError" when map2[v] is looked up for an absent v
\* before any pair is found to disagree (all() stops at the first False).
is_inverse_dict(map1, map2) ==
    IF Len(map1) # Len(map2) THEN "False"
    ELSE LET bad == {i \in 1..Len(map1) :
                        \/ ~Has(map2, map1[i][2])
                        \/ Get(map2, map1[i][2]) # map1[i][1]}
         IN  IF bad = {} THEN "True"
             ELSE LET i == CHOOSE j \in bad : \A l \in bad : j <= l
                  IN  IF Has(map2, map1[i][2]) THEN "False" ELSE "KeyError"

-----------------------------------------------------------------------------
(* arg_tricks *)

\* An argument or a call's result is a record [h |-> heap, self |-> object id];
\* default_fn and non_default_fn stand for the results of the calls
\* default_fn() and non_default_fn(optional), evaluated only when chosen.
default_eval(optional, default_fn) ==
    IF optional.self = None THEN default_fn ELSE optional

\* non_default_eval(optional, non_default_fn, default_fn): the function
\* applied to the optional argument when it is given, the default when not.
non_default_eval(optional, non_default_fn, default_fn) ==
    IF optional.self = None THEN default_fn ELSE non_default_fn

-----------------------------------------------------------------------------
(* PairedDict *)

\* A local variable: Let(x, LAMBDA v : e) is e with v bound to the value x
Let(x, F(_)) == F(x)

NewObject == [data |-> << >>, inverse |-> None, formed |-> FALSE]

\* Variant: the reversed item is left in self.inverse.
PairedDict_delitem_noinverse(h, self, key) ==
    IF ~Has(h[self].data, key) THEN Raise(h, "KeyError")
    ELSE Ok([h EXCEPT ![self].data = PlainDel(@, key)])

\* Variant: the inverse is deleted at key instead of at self[key].
PairedDict_delitem_samekey(h, self, key) ==
    LET inv == h[self].inverse IN
    IF h[self].formed
    THEN IF ~Has(h[inv].data, key) THEN Raise(h, "KeyError")
         ELSE LET h1 == [h EXCEPT ![inv].data = PlainDel(@, key)] IN
              IF ~Has(h1[self].data, key) THEN Raise(h1, "KeyError")
              ELSE Ok([h1 EXCEPT ![self].data = PlainDel(@, key)])
    ELSE IF ~Has(h[self].data, key) THEN Raise(h, "KeyError")
         ELSE Ok([h EXCEPT ![self].data = PlainDel(@, key)])

\* Variant: deleting an absent key is silently ignored.
PairedDict_delitem_quiet(h, self, key) ==
    LET inv == h[self].inverse IN
    IF ~Has(h[self].data, key) THEN Ok(h)
    ELSE IF h[self].formed /\ Has(h[inv].data, Get(h[self].data, key))
    THEN Ok([h EXCEPT ![inv].data = PlainDel(@, Get(h[self].data, key)),
                      ![self].data = PlainDel(@, key)])
    ELSE Ok([h EXCEPT ![self].data = PlainDel(@, key)])

PairedDict_delitem(h, self, key) ==
    LET inv == h[self].inverse IN
    IF h[self].formed
    THEN IF ~Has(h[self].data, key) THEN Raise(h, "KeyError")
         ELSE IF inv = None THEN Raise(h, "TypeError")
         ELSE LET v == Get(h[self].data, key) IN
              IF ~Has(h[inv].data, v) THEN Raise(h, "KeyError")
              ELSE LET h1 == [h EXCEPT ![inv].data = PlainDel(@, v)] IN
                   IF ~Has(h1[self].data, key) THEN Raise(h1, "KeyError")
                   ELSE Ok([h1 EXCEPT ![self].data = PlainDel(@, key)])
    ELSE IF ~Has(h[self].data, key) THEN Raise(h, "KeyError")
         ELSE Ok([h EXCEPT ![self].data = PlainDel(@, key)])

\* Variant: the old partner of value is not evicted from self.inverse.
PairedDict_setitem_noevict(h, self, key, value) ==
    LET inv == h[self].inverse IN
    IF h[self].formed
    THEN Let(IF Has(h[self].data, key)
             THEN PairedDict_delitem(h, self, key) ELSE Ok(h), LAMBDA r1 :
         IF r1.err # "ok" THEN r1
         ELSE Ok([r1.h EXCEPT ![inv].data = PlainSet(@, value, key),
                              ![self].data = PlainSet(@, key, value)]))
    ELSE Ok([h EXCEPT ![self].data = PlainSet(@, key, value)])

\* Variant: while unformed, a key already present keeps its value.
PairedDict_setitem_keep(h, self, key, value) ==
    LET inv == h[self].inverse IN
    IF h[self].formed
    THEN Let(IF Has(h[self].data, key)
             THEN PairedDict_delitem(h, self, key) ELSE Ok(h), LAMBDA r1 :
         IF r1.err # "ok" THEN r1
         ELSE IF inv = None THEN Raise(r1.h, "AttributeError")
         ELSE Let(IF Has(r1.h[inv].data, value)
                  THEN PairedDict_delitem(r1.h, inv, value) ELSE r1, LAMBDA r2 :
              IF r2.err # "ok" THEN r2
              ELSE Ok([r2.h EXCEPT ![inv].data = PlainSet(@, value, key),
                                   ![self].data = PlainSet(@, key, value)])))
    ELSE IF Has(h[self].data, key) THEN Ok(h)
         ELSE Ok([h EXCEPT ![self].data = PlainSet(@, key, value)])

\* Variant: a value already held by the inverse is refused, not displaced.
PairedDict_setitem_unique(h, self, key, value) ==
    LET inv == h[self].inverse IN
    IF h[self].formed
    THEN Let(IF Has(h[self].data, key)
             THEN PairedDict_delitem(h, self, key) ELSE Ok(h), LAMBDA r1 :
         IF r1.err # "ok" THEN r1
         ELSE IF inv = None THEN Raise(r1.h, "AttributeError")
         ELSE IF Has(r1.h[inv].data, value) THEN Raise(h, "ValueError")
         ELSE Ok([r1.h EXCEPT ![inv].data = PlainSet(@, value, key),
                              ![self].data = PlainSet(@, key, value)]))
    ELSE Ok([h EXCEPT ![self].data = PlainSet(@, key, value)])

\* Variant: a key that is present is overwritten in place, as in a plain dict.
PairedDict_setitem_inplace(h, self, key, value) ==
    LET inv == h[self].inverse IN
    IF h[self].formed
    THEN IF inv = None THEN Raise(h, "AttributeError")
         ELSE Let(IF Has(h[self].data, key)
                  THEN [h EXCEPT ![inv].data = PlainDel(@, Get(h[self].data, key))]
                  ELSE h, LAMBDA h1 :
              Let(IF Has(h1[inv].data, value)
                  THEN PairedDict_delitem(h1, inv, value) ELSE Ok(h1), LAMBDA r2 :
              IF r2.err # "ok" THEN r2
              ELSE Ok([r2.h EXCEPT ![inv].data = PlainSet(@, value, key),
                                   ![self].data = PlainSet(@, key, value)])))
    ELSE Ok([h EXCEPT ![self].data = PlainSet(@, key, value)])

\* Variant: setting a pair that is already there removes it.
PairedDict_setitem_toggle(h, self, key, value) ==
    LET inv == h[self].inverse IN
    IF h[self].formed
    THEN Let(IF Has(h[self].data, key)
             THEN PairedDict_delitem(h, self, key) ELSE Ok(h), LAMBDA r1 :
         IF r1.err # "ok" THEN r1
         ELSE IF inv = None THEN Raise(r1.h, "AttributeError")
         ELSE IF Has(h[self].data, key) /\ Get(h[self].data, key) = value THEN r1
         ELSE Let(IF Has(r1.h[inv].data, value)
                  THEN PairedDict_delitem(r1.h, inv, value) ELSE r1, LAMBDA r2 :
              IF r2.err # "ok" THEN r2
              ELSE Ok([r2.h EXCEPT ![inv].data = PlainSet(@, value, key),
                                   ![self].data = PlainSet(@, key, value)])))
    ELSE Ok([h EXCEPT ![self].data = PlainSet(@, key, value)])

\* Variant: the old partner of key stays in the inverse.
PairedDict_setitem_nodrop(h, self, key, value) ==
    LET inv == h[self].inverse IN
    IF h[self].formed
    THEN IF inv = None THEN Raise(h, "AttributeError")
         ELSE Let(IF Has(h[self].data, key)
                  THEN [h EXCEPT ![self].data = PlainDel(@, key)]
                  ELSE h, LAMBDA h1 :
              Let(IF Has(h1[inv].data, value)
                  THEN PairedDict_delitem(h1, inv, value) ELSE Ok(h1), LAMBDA r2 :
              IF r2.err # "ok" THEN r2
              ELSE Ok([r2.h EXCEPT ![inv].data = PlainSet(@, value, key),
                                   ![self].data = PlainSet(@, key, value)])))
    ELSE Ok([h EXCEPT ![self].data = PlainSet(@, key, value)])

PairedDict_setitem(h, self, key, value) ==
    LET inv == h[self].inverse IN
    IF h[self].formed
    THEN Let(IF Has(h[self].data, key)
             THEN PairedDict_delitem(h, self, key) ELSE Ok(h), LAMBDA r1 :
         IF r1.err # "ok" THEN r1
         ELSE IF inv = None THEN Raise(r1.h, "AttributeError")
         ELSE Let(IF Has(r1.h[inv].data, value)
                  THEN PairedDict_delitem(r1.h, inv, value) ELSE r1, LAMBDA r2 :
              IF r2.err # "ok" THEN r2
              ELSE Ok([r2.h EXCEPT ![inv].data = PlainSet(@, value, key),
                                   ![self].data = PlainSet(@, key, value)])))
    ELSE Ok([h EXCEPT ![self].data = PlainSet(@, key, value)])

\* MutableMapping.update with an iterable of pairs: self[key] = value for each
RECURSIVE update(_, _, _)
update(h, self, pairs) ==
    IF pairs = << >> THEN Ok(h)
    ELSE Let(PairedDict_setitem(h, self, Head(pairs)[1], Head(pairs)[2]),
             LAMBDA r : IF r.err # "ok" THEN r
                        ELSE update(r.h, self, Tail(pairs)))

\* Returns [h |-> heap, self |-> id of the object constructed]
RECURSIVE PairedDict_init(_, _, _, _)

\* Variant: the positional arguments are not passed on to UserDict.__init__.
PairedDict_init_noargs(h, args, inverse, secret) ==
    LET self == Len(h) + 1 IN
    Let(Append(h, NewObject), LAMBDA h1 :
    Let(IF secret
        THEN default_eval([h |-> h1, self |-> inverse],
                          PairedDict_init(h1, << >>, self, TRUE))
        ELSE non_default_eval([h |-> h1, self |-> inverse],
                              PairedDict_init(h1, h1[inverse].data, self, TRUE),
                              PairedDict_init(h1, << >>, self, TRUE)),
        LAMBDA made :
    Let([made.h EXCEPT ![self].inverse = made.self], LAMBDA h2 :
    Let(IF secret \/ inverse # None
        THEN update(h2, self, _inv_dict_iter(h2[made.self].data)).h
        ELSE h2, LAMBDA h3 :
    [h |-> [h3 EXCEPT ![self].formed = TRUE], self |-> self]))))

\* Variant: both init_fn() and init_fn(inverse) are called before
\* non_default_eval chooses between their results.
PairedDict_init_eager(h, args, inverse, secret) ==
    LET self == Len(h) + 1 IN
    Let(update(Append(h, NewObject), self, args).h, LAMBDA h1 :
    Let(IF secret
        THEN default_eval([h |-> h1, self |-> inverse],
                          PairedDict_init(h1, << >>, self, TRUE))
        ELSE Let(PairedDict_init(h1, << >>, self, TRUE), LAMBDA made0 :
             non_default_eval([h |-> h1, self |-> inverse],
                              PairedDict_init(made0.h, h1[inverse].data, self, TRUE),
                              made0)),
        LAMBDA made :
    Let([made.h EXCEPT ![self].inverse = made.self], LAMBDA h2 :
    Let(IF secret \/ inverse # None
        THEN update(h2, self, _inv_dict_iter(h2[made.self].data)).h
        ELSE h2, LAMBDA h3 :
    [h |-> [h3 EXCEPT ![self].formed = TRUE], self |-> self]))))

PairedDict_init(h, args, inverse, secret) ==
    LET self == Len(h) + 1 IN
    Let(update(Append(h, NewObject), self, args).h, LAMBDA h1 :
    Let(IF secret
        THEN default_eval([h |-> h1, self |-> inverse],
                          PairedDict_init(h1, << >>, self, TRUE))
        ELSE non_default_eval([h |-> h1, self |-> inverse],
                              PairedDict_init(h1, h1[inverse].data, self, TRUE),
                              PairedDict_init(h1, << >>, self, TRUE)),
        LAMBDA made :
    Let([made.h EXCEPT ![self].inverse = made.self], LAMBDA h2 :
    Let(IF secret \/ inverse # None
        THEN update(h2, self, _inv_dict_iter(h2[made.self].data)).h
        ELSE h2, LAMBDA h3 :
    [h |-> [h3 EXCEPT ![self].formed = TRUE], self |-> self]))))

\* Variant: only the links are tested, not the items.
check_inverse_linkonly(h, self) ==
    LET inv == h[self].inverse IN
    IF inv = None THEN "False"
    ELSE IF h[inv].inverse = None THEN "False"
    ELSE IF ~DictEq(h[h[inv].inverse].data, h[self].data) THEN "False"
    ELSE "True"

check_inverse(h, self) ==
    LET inv == h[self].inverse IN
    IF inv = None THEN "False"
    ELSE IF h[inv].inverse = None THEN "False"
    ELSE IF ~DictEq(h[h[inv].inverse].data, h[self].data) THEN "False"
    ELSE is_inverse_dict(h[self].data, h[inv].data)

check_inverse_strict(h, self) ==
    Let(check_inverse(h, self), LAMBDA c :
    IF c # "True" THEN c
    ELSE IF h[h[self].inverse].inverse = self THEN "True" ELSE "False")

\* Variant: _unformed without its finally clause, the flag stays off.
_unformed_stuck(h, self, pairs) ==
    Let(update([h EXCEPT ![self].formed = FALSE], self, pairs), LAMBDA r :
    [h |-> r.h, err |-> r.err])

\* the body of  with self._unformed(): self.update(...)
_unformed(h, self, pairs) ==
    Let(update([h EXCEPT ![self].formed = FALSE], self, pairs), LAMBDA r :
    [h |-> [r.h EXCEPT ![self].formed = TRUE], err |-> r.err])

\* fix_me that empties self before rebuilding it from the inverse
fix_me_clear(h, self) ==
    IF h[self].inverse # None
    THEN Let(check_inverse(h, self), LAMBDA c :
         IF c = "KeyError" THEN Raise(h, "KeyError")
         ELSE IF c = "False"
         THEN _unformed([h EXCEPT ![self].data = << >>], self,
                        _inv_dict_iter(h[h[self].inverse].data))
         ELSE Ok(h))
    ELSE Ok(h)

\* fix_me that updates self with the guard on, so the inverse is written too
fix_me_formed(h, self) ==
    IF h[self].inverse # None
    THEN Let(check_inverse(h, self), LAMBDA c :
         IF c = "KeyError" THEN Raise(h, "KeyError")
         ELSE IF c = "False"
         THEN update(h, self, _inv_dict_iter(h[h[self].inverse].data))
         ELSE Ok(h))
    ELSE Ok(h)

fix_me(h, self) ==
    IF h[self].inverse # None
    THEN Let(check_inverse(h, self), LAMBDA c :
         IF c = "KeyError" THEN Raise(h, "KeyError")
         ELSE IF c = "False"
         THEN _unformed(h, self, _inv_dict_iter(h[h[self].inverse].data))
         ELSE Ok(h))
    ELSE Ok(h)

\* a step of fix_inverse: if not self.check_inverse(): fix(); a KeyError of
\* check_inverse (raised by is_inverse_dict) ends the call
IfNotCheck(h, self, fix(_)) ==
    Let(check_inverse(h, self), LAMBDA c :
    IF c = "KeyError" THEN Raise(h, "KeyError")
    ELSE IF c = "False" THEN fix(h)
    ELSE Ok(h))

\* fix_inverse that does not reset the back-reference of the inverse
fix_inverse_norelink(h, self) ==
    Let(IF h[self].inverse = None
        THEN Let(PairedDict_init(h, << >>, self, FALSE), LAMBDA made :
                 [made.h EXCEPT ![self].inverse = made.self])
        ELSE h, LAMBDA h1 :
    Let(h1, LAMBDA h2 :
    Let(IfNotCheck(h2, self, LAMBDA g : fix_me(g, g[self].inverse)), LAMBDA r3 :
    IF r3.err # "ok" THEN r3
    ELSE Let(IfNotCheck(r3.h, self, LAMBDA g : fix_me(g, self)), LAMBDA r4 :
    IF r4.err # "ok" THEN r4
    ELSE IfNotCheck(r4.h, self, LAMBDA g : Raise(g, "ValueError"))))))

fix_inverse(h, self) ==
    Let(IF h[self].inverse = None
        THEN Let(PairedDict_init(h, << >>, self, FALSE), LAMBDA made :
                 [made.h EXCEPT ![self].inverse = made.self])
        ELSE h, LAMBDA h1 :
    Let([h1 EXCEPT ![h1[self].inverse].inverse = self], LAMBDA h2 :
    Let(IfNotCheck(h2, self, LAMBDA g : fix_me(g, g[self].inverse)), LAMBDA r3 :
    IF r3.err # "ok" THEN r3
    ELSE Let(IfNotCheck(r3.h, self, LAMBDA g : fix_me(g, self)), LAMBDA r4 :
    IF r4.err # "ok" THEN r4
    ELSE IfNotCheck(r4.h, self, LAMBDA g : Raise(g, "ValueError"))))))

\* the name 'inverse' used as a key or a keyword: a key outside Keys
InverseName == -1

\* Returns [h, err, fwd, bwd].  kwds are the keyword arguments as a dict from
\* names to values; cls(*args, **kwds) hands both to UserDict.__init__, which
\* updates the new dict with args and then with kwds.
make_pairs(h, args, kwds) ==
    IF Has(kwds, InverseName)
    THEN [h |-> h, err |-> "ValueError", fwd |-> None, bwd |-> None]
    ELSE
    Let(PairedDict_init(h, args \o kwds, None, FALSE), LAMBDA made :
    Let(fix_inverse(made.h, made.self), LAMBDA r :
    Let(IF r.err # "ok" THEN r.err
        ELSE Let(check_inverse_strict(r.h, made.self), LAMBDA c :
                 IF c = "KeyError" THEN "KeyError"
                 ELSE IF c = "False" THEN "ValueError"
                 ELSE "ok"), LAMBDA err :
    [h |-> r.h, err |-> err, fwd |-> made.self,
     bwd |-> r.h[made.self].inverse])))

-----------------------------------------------------------------------------
(* BijectiveMap *)

\* ChainMap.__init__ stores the maps; an exception of make_pairs leaves no map
BijectiveMap_init(h, args) ==
    Let(make_pairs(h, args, << >>), LAMBDA r :
    [h |-> r.h, err |-> r.err,
     maps |-> IF r.err = "ok" THEN <<r.fwd, r.bwd>> ELSE << >>])

fwd(maps) == maps[1]

bwd(maps) == maps[2]

\* Variant: a key found only among the backward keys is set in the backward map.
BijectiveMap_setitem_dispatch(h, maps, key, value) ==
    IF ~Has(h[maps[1]].data, key) /\ Has(h[maps[2]].data, key)
    THEN PairedDict_setitem(h, maps[2], key, value)
    ELSE PairedDict_setitem(h, maps[1], key, value)

\* ChainMap.__setitem__: self.maps[0][key] = value
BijectiveMap_setitem(h, maps, key, value) ==
    PairedDict_setitem(h, maps[1], key, value)

\* ChainMap.__getitem__: the first of self.maps that has the key answers
BijectiveMap_getitem(h, maps, key) ==
    IF Has(h[maps[1]].data, key)
    THEN [value |-> Get(h[maps[1]].data, key), err |-> "ok"]
    ELSE IF Has(h[maps[2]].data, key)
    THEN [value |-> Get(h[maps[2]].data, key), err |-> "ok"]
    ELSE [value |-> None, err |-> "KeyError"]

\* Variant: the backward keys are searched first.
BijectiveMap_delitem_bwdfirst(h, maps, key) ==
    IF Has(h[bwd(maps)].data, key) THEN PairedDict_delitem(h, bwd(maps), key)
    ELSE IF Has(h[fwd(maps)].data, key) THEN PairedDict_delitem(h, fwd(maps), key)
    ELSE Raise(h, "KeyError")

BijectiveMap_delitem(h, maps, key) ==
    IF Has(h[fwd(maps)].data, key) THEN PairedDict_delitem(h, fwd(maps), key)
    ELSE IF Has(h[bwd(maps)].data, key) THEN PairedDict_delitem(h, bwd(maps), key)
    ELSE Raise(h, "KeyError")

-----------------------------------------------------------------------------
(* The program: a caller that builds one bidirectional map, strictly       *)
(* (BijectiveMap) or with the plain PairedDict constructor, and then sets  *)
(* and deletes items through the map or through either directional view.   *)

Pair == Keys \X Keys

PairLists == UNION {[1..n -> Pair] : n \in 0..MaxPairs}

NoOp == [op |-> "none", obj |-> None, key |-> 0, value |-> 0, result |-> "ok"]

\* no helper function has been called
NoCall == [op |-> "none"]

\* the class DisplayTemporary as defined: debug = False, _nactive = 0, no
\* instance made and no method called
NoDisplays ==
    [debug |-> FALSE, nactive |-> 0, objs |-> << >>, before |-> << >>,
     call |-> [op |-> "none", obj |-> 0, result |-> "ok"]]

\* the threads of the caller; outside the threaded program they stay idle
Threads == {1, 2}

\* a thread's frame: pc, the arguments of its set or delete, and, inside a
\* guarded delete, the object and key of that delete, the value read from
\* the object and the position to return to
Idle ==
    [pc |-> "idle", self |-> None, key |-> 0, value |-> 0,
     dobj |-> None, dkey |-> 0, tmp |-> 0, ret |-> "idle",
     overlap |-> FALSE, err |-> "ok"]

Init ==
    /\ heap = << >>
    /\ bm = << >>
    /\ pd = None
    /\ input = << >>
    /\ threads = [t \in Threads |-> Idle]
    /\ dicts = NoCall
    /\ displays = NoDisplays
    /\ prev = << >>
    /\ last = NoOp

\* m = BijectiveMap(args)
NewBijectiveMap(args) ==
    /\ last.op = "none"
    /\ LET r == BijectiveMap_init(heap, args) IN
       /\ heap' = r.h
       /\ bm' = r.maps
       /\ last' = [op |-> "BijectiveMap", obj |-> None, key |-> 0, value |-> 0,
                   result |-> r.err]
    /\ input' = args
    /\ prev' = heap
    /\ UNCHANGED <<pd, threads, dicts, displays>>

\* p = PairedDict(args), no inverse supplied
NewPairedDict(args) ==
    /\ last.op = "none"
    /\ LET r == PairedDict_init(heap, args, None, FALSE) IN
       /\ heap' = r.h
       /\ pd' = r.self
    /\ last' = [op |-> "PairedDict", obj |-> None, key |-> 0, value |-> 0,
                result |-> "ok"]
    /\ input' = args
    /\ prev' = heap
    /\ UNCHANGED <<bm, threads, dicts, displays>>

\* the objects the caller holds: m.fwd and m.bwd, or p and p.inverse
Views ==
    IF bm # << >> THEN {fwd(bm), bwd(bm)}
    ELSE IF pd # None THEN {pd, heap[pd].inverse}
    ELSE {}

\* m[key] = value
MapSet(key, value) ==
    /\ bm # << >>
    /\ LET r == BijectiveMap_setitem(heap, bm, key, value) IN
       /\ heap' = r.h
       /\ last' = [op |-> "set", obj |-> None, key |-> key, value |-> value,
                   result |-> r.err]
    /\ prev' = heap
    /\ input' = << >>
    /\ UNCHANGED <<bm, pd, threads, dicts, displays>>

\* del m[key]
MapDel(key) ==
    /\ bm # << >>
    /\ LET r == BijectiveMap_delitem(heap, bm, key) IN
       /\ heap' = r.h
       /\ last' = [op |-> "del", obj |-> None, key |-> key, value |-> 0,
                   result |-> r.err]
    /\ prev' = heap
    /\ input' = << >>
    /\ UNCHANGED <<bm, pd, threads, dicts, displays>>

\* d[key] = value for a directional map d
DictSet(self, key, value) ==
    /\ self \in Views
    /\ LET r == PairedDict_setitem(heap, self, key, value) IN
       /\ heap' = r.h
       /\ last' = [op |-> "set", obj |-> self, key |-> key, value |-> value,
                   result |-> r.err]
    /\ prev' = heap
    /\ input' = << >>
    /\ UNCHANGED <<bm, pd, threads, dicts, displays>>

\* del d[key] for a directional map d
DictDel(self, key) ==
    /\ self \in Views
    /\ LET r == PairedDict_delitem(heap, self, key) IN
       /\ heap' = r.h
       /\ last' = [op |-> "del", obj |-> self, key |-> key, value |-> 0,
                   result |-> r.err]
    /\ prev' = heap
    /\ input' = << >>
    /\ UNCHANGED <<bm, pd, threads, dicts, displays>>

\* d.check_inverse() for a directional map d
CheckInverse(self) ==
    /\ self \in Views
    /\ last' = [op |-> "check_inverse", obj |-> self, key |-> 0, value |-> 0,
                result |-> check_inverse(heap, self)]
    /\ prev' = heap
    /\ UNCHANGED <<heap, bm, pd, input, threads, dicts, displays>>

Next ==
    \/ last.op = "none" /\ \E args \in PairLists : NewBijectiveMap(args)
    \/ last.op = "none" /\ \E args \in PairLists : NewPairedDict(args)
    \/ \E key \in Keys, value \in Keys : MapSet(key, value)
    \/ \E key \in Keys : MapDel(key)
    \/ \E self \in Views, key \in Keys, value \in Keys : DictSet(self, key, value)
    \/ \E self \in Views, key \in Keys : DictDel(self, key)
    \/ \E self \in Views : CheckInverse(self)

Spec == Init /\ [][Next]_vars

-----------------------------------------------------------------------------
(* Vocabulary of the properties *)

\* f and b are exact inverses: each pair of one is the swapped pair of the other
InverseConsistent(f, b) ==
    /\ \A i \in 1..Len(f) : Has(b, f[i][2]) /\ Get(b, f[i][2]) = f[i][1]
    /\ \A j \in 1..Len(b) : Has(f, b[j][2]) /\ Get(f, b[j][2]) = b[j][1]
    /\ Len(f) = Len(b)

\* object a and its inverse are a formed, linked, consistent pair in heap h
FormedConsistent(h, a) ==
    /\ h[a].inverse # None
    /\ h[h[a].inverse].inverse = a
    /\ h[a].formed /\ h[h[a].inverse].formed
    /\ InverseConsistent(h[a].data, h[h[a].inverse].data)

\* the directional map the last set or delete was applied to
Target ==
    IF last.obj # None THEN last.obj
    ELSE IF last.op = "del" /\ ~Has(prev[fwd(bm)].data, last.key) THEN bwd(bm)
    ELSE fwd(bm)

TargetInv == prev[Target].inverse

-----------------------------------------------------------------------------
(* C1: in a BijectiveMap built by the strict constructor, after every set  *)
(* or delete through the map, its forward view or its backward view, also  *)
(* one that failed with a key error, forward and backward are exact        *)
(* inverses of each other and have the same length.                        *)
C1_InverseInvariant ==
    bm # << >> => InverseConsistent(heap[fwd(bm)].data, heap[bwd(bm)].data)

\* a set through the backward view has displaced a pair of a two-pair map
C1_Witness ==
    /\ bm # << >>
    /\ last.op = "set" /\ last.obj = bwd(bm) /\ last.result = "ok"
    /\ Len(prev[fwd(bm)].data) = 2
    /\ Len(heap[fwd(bm)].data) = 1

(* C2: displacement law.  On a formed consistent pair where k is paired    *)
(* with v_old # v and v is paired with k_old # k, set(k, v) leaves k_old   *)
(* out of the map and v_old out of its inverse, pairs k with v in both     *)
(* directions, and leaves no other pair with key k or value v.             *)
C2_Precondition ==
    /\ last.op = "set"
    /\ FormedConsistent(prev, Target)
    /\ Has(prev[Target].data, last.key)
    /\ Has(prev[TargetInv].data, last.value)
    /\ Get(prev[Target].data, last.key) # last.value
    /\ Get(prev[TargetInv].data, last.value) # last.key

C2_Displacement ==
    C2_Precondition =>
        LET k == last.key
            v == last.value
            v_old == Get(prev[Target].data, k)
            k_old == Get(prev[TargetInv].data, v)
            f == heap[Target].data
            b == heap[TargetInv].data
        IN  /\ last.result = "ok"
            /\ ~Has(f, k_old)
            /\ ~Has(b, v_old)
            /\ Has(f, k) /\ Get(f, k) = v
            /\ Has(b, v) /\ Get(b, v) = k
            /\ \A p \in PairsOf(f) : (p[1] = k \/ p[2] = v) => p = <<k, v>>
            /\ \A p \in PairsOf(b) : (p[1] = v \/ p[2] = k) => p = <<v, k>>

C2_Witness ==
    /\ C2_Precondition
    /\ last.obj = None
    /\ last.result = "ok"

(* C3: symmetry of deletion.  Deleting a key k that a formed consistent    *)
(* map pairs with v succeeds and leaves k out of the map and v out of its  *)
(* inverse, whichever of the two directions the delete is applied to.      *)
C3_Precondition ==
    /\ last.op = "del"
    /\ FormedConsistent(prev, Target)
    /\ Has(prev[Target].data, last.key)

C3_DeleteSymmetry ==
    C3_Precondition =>
        /\ last.result = "ok"
        /\ ~Has(heap[Target].data, last.key)
        /\ ~Has(heap[TargetInv].data, Get(prev[Target].data, last.key))

\* a delete through the backward view of a map with two pairs
C3_Witness ==
    /\ C3_Precondition
    /\ bm # << >> /\ last.obj = bwd(bm)
    /\ Len(prev[Target].data) = 2

(* C4: deleting, from a directional map, a key it does not hold fails with *)
(* a key error and leaves the map and its inverse as they were.            *)
C4_Precondition ==
    /\ last.op = "del"
    /\ last.obj # None
    /\ ~Has(prev[last.obj].data, last.key)

C4_DeleteAbsent ==
    C4_Precondition => last.result = "KeyError" /\ heap = prev

\* the key is absent from the map deleted from, but a key of its inverse
C4_Witness ==
    /\ C4_Precondition
    /\ Has(prev[prev[last.obj].inverse].data, last.key)

\* The effect of BijectiveMap.delete(key).  staysUnless: the case in which a
\* pair that key has as a backward key need not stay after the forward pair
\* of key was removed.  secondSucceeds: the case in which deleting the same
\* key once more does not fail.
C5_MapDelete(staysUnless, secondSucceeds) ==
    (last.op = "del" /\ last.obj = None) =>
        LET key == last.key
            F == prev[fwd(bm)].data
            B == prev[bwd(bm)].data
            f == heap[fwd(bm)].data
            b == heap[bwd(bm)].data
        IN  /\ Has(F, key) =>
                /\ last.result = "ok"
                /\ PairsOf(f) = PairsOf(F) \ {<<key, Get(F, key)>>}
                /\ PairsOf(b) = PairsOf(B) \ {<<Get(F, key), key>>}
                /\ (Has(B, key) /\ ~staysUnless) =>
                       Has(b, key) /\ Get(b, key) = Get(B, key)
            /\ (~Has(F, key) /\ Has(B, key)) =>
                /\ last.result = "ok"
                /\ PairsOf(b) = PairsOf(B) \ {<<key, Get(B, key)>>}
                /\ PairsOf(f) = PairsOf(F) \ {<<Get(B, key), key>>}
            /\ (~Has(F, key) /\ ~Has(B, key)) =>
                /\ last.result = "KeyError"
                /\ heap = prev
            /\ last.result = "ok" =>
                (BijectiveMap_delitem(heap, bm, key).err = "KeyError"
                    <=> ~secondSucceeds)

(* C5 as stated: BijectiveMap.delete(key) removes the pair (key,           *)
(* forward[key]) if key is a forward key, and then a pair that key has as  *)
(* a backward key stays; otherwise it removes (backward[key], key) if key  *)
(* is a backward key; otherwise it fails with a key error and changes      *)
(* nothing; a second delete of the same key always fails.                  *)
C5_Original == C5_MapDelete(FALSE, FALSE)

\* key was a forward key and the backward key of another pair
C5_KeyOfTwoPairs ==
    /\ Has(prev[fwd(bm)].data, last.key)
    /\ Has(prev[bwd(bm)].data, last.key)
    /\ Get(prev[fwd(bm)].data, last.key) # last.key

(* C5 amended: as C5, except that the pair key has as a backward key stays *)
(* only if it is another pair than the one removed (forward[key] # key),   *)
(* and that the second delete of the same key fails unless key was both a  *)
(* forward key and the backward key of another pair, which the second      *)
(* delete then removes.                                                    *)
C5_DeleteDispatch ==
    C5_MapDelete(Get(prev[fwd(bm)].data, last.key) = last.key,
                 C5_KeyOfTwoPairs)

C5_Witness ==
    /\ last.op = "del" /\ last.obj = None /\ last.result = "ok"
    /\ C5_KeyOfTwoPairs

(* C6: BijectiveMap.set(key, value) is applied to the forward map whatever *)
(* key and value are: it succeeds, and afterwards forward[key] == value    *)
(* and backward[value] == key.                                             *)
C6_SetForward ==
    (last.op = "set" /\ last.obj = None) =>
        /\ last.result = "ok"
        /\ Has(heap[fwd(bm)].data, last.key)
        /\ Get(heap[fwd(bm)].data, last.key) = last.value
        /\ Has(heap[bwd(bm)].data, last.value)
        /\ Get(heap[bwd(bm)].data, last.value) = last.key

\* key was a backward key only, value a forward key only
C6_Witness ==
    /\ last.op = "set" /\ last.obj = None /\ last.result = "ok"
    /\ ~Has(prev[fwd(bm)].data, last.key)
    /\ Has(prev[bwd(bm)].data, last.key)
    /\ Has(prev[fwd(bm)].data, last.value)
    /\ ~Has(prev[bwd(bm)].data, last.value)

-----------------------------------------------------------------------------
(* The mapping a list of pairs denotes: a key maps to the value of its     *)
(* last pair.                                                              *)

InputKeys(args) == {args[i][1] : i \in 1..Len(args)}

InputValue(args, k) ==
    LET at == {i \in 1..Len(args) : args[i][1] = k}
    IN  args[CHOOSE i \in at : \A j \in at : j <= i][2]

InputPairs(args) == {<<k, InputValue(args, k)>> : k \in InputKeys(args)}

FirstIndex(args, k) ==
    LET at == {i \in 1..Len(args) : args[i][1] = k}
    IN  CHOOSE i \in at : \A j \in at : i <= j

RepeatedValue(args) ==
    \E k1, k2 \in InputKeys(args) :
        k1 # k2 /\ InputValue(args, k1) = InputValue(args, k2)

(* C7: the strict constructor fails with ValueError exactly when two       *)
(* distinct keys of the input map to the same value, and succeeds for      *)
(* every other input.                                                      *)
C7_StrictRejects ==
    last.op = "BijectiveMap" =>
        IF RepeatedValue(input)
        THEN last.result = "ValueError" /\ bm = << >>
        ELSE last.result = "ok" /\ bm # << >>

\* rejected input in which a key is also given twice
C7_Witness ==
    /\ last.op = "BijectiveMap" /\ last.result = "ValueError"
    /\ RepeatedValue(input)
    /\ Len(input) = 3 /\ Cardinality(InputKeys(input)) = 2

(* C8: after a successful strict construction forward.inverse is the       *)
(* backward object and backward.inverse the forward object, forward holds  *)
(* exactly the pairs of the input and backward exactly the swapped pairs.  *)
C8_StrictResult ==
    (last.op = "BijectiveMap" /\ last.result = "ok") =>
        /\ bm # << >>
        /\ fwd(bm) # bwd(bm)
        /\ heap[fwd(bm)].inverse = bwd(bm)
        /\ heap[bwd(bm)].inverse = fwd(bm)
        /\ PairsOf(heap[fwd(bm)].data) = InputPairs(input)
        /\ Len(heap[fwd(bm)].data) = Cardinality(InputPairs(input))
        /\ PairsOf(heap[bwd(bm)].data) = Swap(InputPairs(input))
        /\ Len(heap[bwd(bm)].data) = Cardinality(InputPairs(input))

C8_Witness ==
    /\ last.op = "BijectiveMap" /\ last.result = "ok"
    /\ Cardinality(InputPairs(input)) = 2
    /\ \E p \in InputPairs(input) : p[1] # p[2]

(* C9: the plain constructor, called without an inverse, does not raise    *)
(* for an input with repeated values, and check_inverse() on the map it    *)
(* built returns False.                                                    *)
C9_UncheckedTolerant ==
    /\ (last.op = "PairedDict" /\ RepeatedValue(input)) =>
           /\ last.result = "ok"
           /\ pd # None
           /\ check_inverse(heap, pd) = "False"
    /\ (last.op = "check_inverse" /\ pd # None /\ last.obj = pd
            /\ RepeatedValue(input)) =>
           last.result = "False"

C9_Witness ==
    /\ last.op = "check_inverse" /\ pd # None /\ last.obj = pd
    /\ RepeatedValue(input)
    /\ last.result = "False"

(* C10: the plain constructor, called without an inverse, leaves the       *)
(* primary map holding the pairs of the input in their order, and builds   *)
(* the inverse from the swapped pairs, the last one written winning: each  *)
(* value of the primary is mapped to the key inserted last among the keys  *)
(* that map to it, and the inverse holds nothing else.                     *)
C10_UncheckedInverse ==
    last.op = "PairedDict" =>
        LET d == heap[pd].data
            inv == heap[heap[pd].inverse].data
            lastOf(v) == LET at == {i \in 1..Len(d) : d[i][2] = v}
                         IN  d[CHOOSE i \in at : \A j \in at : j <= i][1]
        IN  /\ PairsOf(d) = InputPairs(input)
            /\ Len(d) = Cardinality(InputKeys(input))
            /\ \A i, j \in 1..Len(d) :
                   i < j => FirstIndex(input, d[i][1]) < FirstIndex(input, d[j][1])
            /\ KeysOf(inv) = ValuesOf(d)
            /\ Len(inv) = Cardinality(ValuesOf(d))
            /\ \A v \in ValuesOf(d) : Get(inv, v) = lastOf(v)

\* two keys with the same value: one association is missing from the inverse
C10_Witness ==
    /\ last.op = "PairedDict"
    /\ RepeatedValue(input)
    /\ Len(heap[pd].data) = 2
    /\ Len(heap[heap[pd].inverse].data) = 1

-----------------------------------------------------------------------------
(* Repair.  The class warns that the pair "can break if self.inverse is    *)
(* replaced or private machinery is used" (the attributes inverse and data *)
(* are public), and check_inverse, fix_me and fix_inverse are the methods  *)
(* a caller uses on such a pair.  The program below holds three PairedDict *)
(* objects after such surgery: objects 1 and 2 with any entries, object 3  *)
(* a copy of object 1 or empty, each inverse attribute unset or pointing   *)
(* at one of the other two objects.  It then calls one of the three        *)
(* methods on one of the objects.                                          *)

\* the dicts over Keys, keys inserted in increasing order
SortedDicts ==
    {d \in UNION {[1..n -> Pair] : n \in 0..MaxKey} :
        \A i, j \in 1..Len(d) : i < j => d[i][1] < d[j][1]}

\* a formed PairedDict object (outside a method the flag is always set)
Object(data, inverse) == [data |-> data, inverse |-> inverse, formed |-> TRUE]

InitRepair ==
    /\ \E d1 \in SortedDicts, d2 \in SortedDicts :
       \E d3 \in {d1, << >>} :
       \E i1 \in {None, 2, 3}, i2 \in {None, 1, 3}, i3 \in {None, 2} :
           heap = <<Object(d1, i1), Object(d2, i2), Object(d3, i3)>>
    /\ bm = << >>
    /\ pd = None
    /\ input = << >>
    /\ threads = [t \in Threads |-> Idle]
    /\ dicts = NoCall
    /\ displays = NoDisplays
    /\ prev = << >>
    /\ last = NoOp

\* d.check_inverse() for any object d
CheckAny(self) ==
    /\ last.op = "none"
    /\ last' = [op |-> "check_inverse", obj |-> self, key |-> 0, value |-> 0,
                result |-> check_inverse(heap, self)]
    /\ prev' = heap
    /\ UNCHANGED <<heap, bm, pd, input, threads, dicts, displays>>

\* d.fix_me()
FixMe(self) ==
    /\ last.op = "none"
    /\ LET r == fix_me(heap, self) IN
       /\ heap' = r.h
       /\ last' = [op |-> "fix_me", obj |-> self, key |-> 0, value |-> 0,
                   result |-> r.err]
    /\ prev' = heap
    /\ UNCHANGED <<bm, pd, input, threads, dicts, displays>>

\* d.fix_inverse()
FixInverse(self) ==
    /\ last.op = "none"
    /\ LET r == fix_inverse(heap, self) IN
       /\ heap' = r.h
       /\ last' = [op |-> "fix_inverse", obj |-> self, key |-> 0, value |-> 0,
                   result |-> r.err]
    /\ prev' = heap
    /\ UNCHANGED <<bm, pd, input, threads, dicts, displays>>

NextRepair ==
    \/ \E self \in DOMAIN heap : CheckAny(self)
    \/ \E self \in DOMAIN heap : FixMe(self)
    \/ \E self \in DOMAIN heap : FixInverse(self)

SpecRepair == InitRepair /\ [][NextRepair]_vars

\* the object a repair method was called on, and its inverse before the call
Self == last.obj

SelfInv == prev[Self].inverse

(* C11: check_inverse() returns True exactly when the inverse exists, the  *)
(* inverse of the inverse is the object itself, and the two maps are exact *)
(* set-inverses; in every other state it returns False and does not fail.  *)
C11_IsConsistent ==
    last.op = "check_inverse" =>
        last.result =
            IF /\ SelfInv # None
               /\ prev[SelfInv].inverse = Self
               /\ InverseConsistent(prev[Self].data, prev[SelfInv].data)
            THEN "True" ELSE "False"

(* C12: whenever fix_inverse returns without error, whatever the state it  *)
(* started from (inverse unset, back-reference of the inverse pointing at  *)
(* another object, entries out of step), the inverse of the inverse of the *)
(* object is the object itself and the two maps are exact inverses.        *)
C12_FixInverseEstablishes ==
    (last.op = "fix_inverse" /\ last.result = "ok") =>
        /\ heap[Self].inverse # None
        /\ heap[heap[Self].inverse].inverse = Self
        /\ InverseConsistent(heap[Self].data, heap[heap[Self].inverse].data)

\* a successful repair of a pair whose back-reference pointed at another
\* object and whose inverse lacked an entry
C12_Witness ==
    /\ last.op = "fix_inverse" /\ last.result = "ok"
    /\ SelfInv # None
    /\ prev[SelfInv].inverse \notin {None, Self}
    /\ ~InverseConsistent(prev[Self].data, prev[SelfInv].data)
    /\ heap # prev

(* C13: fix_inverse has exactly two outcomes on any pair of maps: it       *)
(* returns with the pair linked and consistent, or it fails with           *)
(* ValueError; no other error, such as a KeyError, escapes from it.        *)
C13_TwoOutcomes ==
    last.op = "fix_inverse" =>
        \/ last.result = "ok" /\ FormedConsistent(heap, Self)
        \/ last.result = "ValueError"

\* the swapped entries of dict d, read as a mapping: the last one written wins
LastKeyOf(d, v) ==
    LET at == {i \in 1..Len(d) : d[i][2] = v}
    IN  d[CHOOSE i \in at : \A j \in at : j <= i][1]

\* fix_me was called on an object whose entries are not the inverse's, swapped
C14_Precondition ==
    /\ last.op = "fix_me"
    /\ SelfInv # None
    /\ ~InverseConsistent(prev[Self].data, prev[SelfInv].data)

\* C14 as stated: fix_me clears the map and rebuilds it from the inverse, so
\* that afterwards its entries are exactly the swapped entries of the inverse
C14_ClearsAndRebuilds ==
    C14_Precondition =>
        PairsOf(heap[Self].data) = Swap(PairsOf(heap[SelfInv].data))

(* C14, amended: fix_me on a map whose entries are not the swapped entries *)
(* of its inverse either fails with the KeyError of check_inverse and      *)
(* changes nothing, or updates the map from the inverse without clearing   *)
(* it: every value of the inverse becomes a key of the map, mapped to the  *)
(* inverse's key for it (the last one if several), and every entry of the  *)
(* map whose key is not a value of the inverse stays as it was.            *)
C14_UpdatesFromInverse ==
    C14_Precondition =>
        IF last.result = "KeyError" THEN heap = prev
        ELSE LET old == prev[Self].data
                 new == heap[Self].data
                 inv == prev[SelfInv].data
             IN  /\ last.result = "ok"
                 /\ KeysOf(new) = KeysOf(old) \cup ValuesOf(inv)
                 /\ \A k \in ValuesOf(inv) : Get(new, k) = LastKeyOf(inv, k)
                 /\ \A k \in KeysOf(old) \ ValuesOf(inv) : Get(new, k) = Get(old, k)

\* fix_me changed the map and an entry that is no swap of an inverse entry stays
C14_Witness ==
    /\ C14_Precondition
    /\ last.result = "ok"
    /\ heap # prev
    /\ \E k \in KeysOf(heap[Self].data) : k \notin ValuesOf(heap[SelfInv].data)

(* C15: fix_me never modifies the entries of the inverse (nor any object   *)
(* other than the one it is called on), and changes nothing at all when no *)
(* inverse is set or when the object is already consistent with its        *)
(* inverse.                                                                *)
C15_FixMeFrame ==
    last.op = "fix_me" =>
        /\ DOMAIN heap = DOMAIN prev
        /\ \A o \in DOMAIN heap : o # Self => heap[o] = prev[o]
        /\ heap[Self].inverse = SelfInv
        /\ (SelfInv = None \/ FormedConsistent(prev, Self)) => heap = prev

\* fix_me rewrote an entry of the object and left the inverse alone
C15_Witness ==
    /\ last.op = "fix_me" /\ last.result = "ok"
    /\ heap[Self].data # prev[Self].data
    /\ heap[SelfInv].data = prev[SelfInv].data

(* C16: on a formed consistent pair, set(key, value) succeeds for every    *)
(* key and value (no ValueError, no KeyError), and delete(key) succeeds    *)
(* exactly when key is present in the map it is called on, failing with    *)
(* KeyError otherwise.                                                     *)
C16_GuardedTotality ==
    (last.op \in {"set", "del"} /\ FormedConsistent(prev, Target)) =>
        IF last.op = "set" THEN last.result = "ok"
        ELSE LET present ==
                     IF last.obj # None THEN Has(prev[last.obj].data, last.key)
                     ELSE \/ Has(prev[fwd(bm)].data, last.key)
                          \/ Has(prev[bwd(bm)].data, last.key)
             IN  last.result = IF present THEN "ok" ELSE "KeyError"

\* a set whose key and whose value were both taken, by two different pairs
C16_Witness ==
    /\ last.op = "set" /\ last.result = "ok"
    /\ FormedConsistent(prev, Target)
    /\ Has(prev[Target].data, last.key)
    /\ Has(prev[TargetInv].data, last.value)
    /\ Get(prev[Target].data, last.key) # last.value
    /\ Len(heap[Target].data) < Len(prev[Target].data)

-----------------------------------------------------------------------------
(* Lookup.  A caller builds a BijectiveMap from a short list of pairs over *)
(* three keys and subscripts the map itself.                               *)

LookupKeys == 1..MaxLookupKey

LookupLists ==
    UNION {[1..n -> LookupKeys \X LookupKeys] : n \in 0..MaxLookupPairs}

\* m[key]
MapGet(key) ==
    /\ bm # << >>
    /\ LET r == BijectiveMap_getitem(heap, bm, key) IN
       last' = [op |-> "get", obj |-> None, key |-> key, value |-> r.value,
                result |-> r.err]
    /\ prev' = heap
    /\ input' = << >>
    /\ UNCHANGED <<heap, bm, pd, threads, dicts, displays>>

NextLookup ==
    \/ last.op = "none" /\ \E args \in LookupLists : NewBijectiveMap(args)
    \/ \E key \in LookupKeys : MapGet(key)

SpecLookup == Init /\ [][NextLookup]_vars

(* C17: for a BijectiveMap m, fwd[key1] == key2 holds exactly when         *)
(* bwd[key2] == key1, and whenever they hold m[key1] == key2 and           *)
(* m[key2] == key1, for every pair of keys, also when the key set and the  *)
(* value set of the map overlap.                                           *)
C17_SymmetricLookup ==
    bm # << >> =>
        LET f == heap[fwd(bm)].data
            b == heap[bwd(bm)].data
        IN  /\ \A key1, key2 \in LookupKeys :
                   (Has(f, key1) /\ Get(f, key1) = key2)
                       <=> (Has(b, key2) /\ Get(b, key2) = key1)
            /\ last.op = "get" =>
                   /\ Has(f, last.key) =>
                          last.result = "ok" /\ last.value = Get(f, last.key)
                   /\ Has(b, last.key) =>
                          last.result = "ok" /\ last.value = Get(b, last.key)

(* C18: from the same consistent state, setting fwd[key1] = key2 and       *)
(* setting bwd[key2] = key1 produce the same set of forward pairs and the  *)
(* same set of backward pairs.  A set through one view (or through the     *)
(* map, which uses fwd) is compared with the set through the other view.   *)
C18_EitherDirection ==
    (last.op = "set" /\ FormedConsistent(prev, Target)) =>
        LET other == PairedDict_setitem(prev, TargetInv, last.value, last.key)
        IN  /\ other.err = last.result
            /\ PairsOf(other.h[Target].data) = PairsOf(heap[Target].data)
            /\ PairsOf(other.h[TargetInv].data) = PairsOf(heap[TargetInv].data)

\* a set through the backward view of a map that displaced two pairs
C18_Witness ==
    /\ bm # << >>
    /\ last.op = "set" /\ last.obj = bwd(bm) /\ last.result = "ok"
    /\ Has(prev[bwd(bm)].data, last.key)
    /\ Has(prev[fwd(bm)].data, last.value)
    /\ Get(prev[bwd(bm)].data, last.key) # last.value
    /\ PairsOf(heap[fwd(bm)].data) = {<<last.value, last.key>>}

-----------------------------------------------------------------------------
(* Threads.  PairedDict takes no lock, so two threads that share one       *)
(* BijectiveMap run __setitem__ and __delitem__ of its forward view        *)
(* statement by statement: every test, read or write of one of the two     *)
(* underlying dicts is a step of its own and the steps of the two threads  *)
(* interleave freely.  Each thread runs one set or one delete.             *)

\* the thread leaves a guarded delete, or a whole operation
Return(th, pc) ==
    [th EXCEPT !.pc = pc, !.dobj = None, !.dkey = 0, !.tmp = 0, !.ret = "idle"]

Fail(th, e) == [Return(th, "failed") EXCEPT !.err = e]

\* Variant: the inverse's entry is left for the last step, which removes both.
PairedDict_delitem_step_late(h, th) ==
    LET obj == th.dobj
        inv == h[obj].inverse
    IN  CASE th.pc = "del_read" ->
                 IF Has(h[obj].data, th.dkey)
                 THEN [h |-> h, th |-> [th EXCEPT !.pc = "del_inv",
                                                  !.tmp = Get(h[obj].data, th.dkey)]]
                 ELSE [h |-> h, th |-> Fail(th, "KeyError")]
          [] th.pc = "del_inv" ->
                 IF Has(h[inv].data, th.tmp)
                 THEN [h |-> h, th |-> [th EXCEPT !.pc = "del_self"]]
                 ELSE [h |-> h, th |-> Fail(th, "KeyError")]
          [] th.pc = "del_self" ->
                 IF Has(h[obj].data, th.dkey)
                 THEN [h |-> [h EXCEPT ![inv].data = PlainDel(@, th.tmp),
                                       ![obj].data = PlainDel(@, th.dkey)],
                       th |-> Return(th, th.ret)]
                 ELSE [h |-> h, th |-> Fail(th, "KeyError")]

\* PairedDict.__delitem__ of a formed object, one dict access at a time:
\*   del_read   self[key]                              (KeyError if absent)
\*   del_inv    super(self.inverse).__delitem__(that)  (KeyError if absent)
\*   del_self   super().__delitem__(key)               (KeyError if absent)
PairedDict_delitem_step(h, th) ==
    LET obj == th.dobj
        inv == h[obj].inverse
    IN  CASE th.pc = "del_read" ->
                 IF Has(h[obj].data, th.dkey)
                 THEN [h |-> h, th |-> [th EXCEPT !.pc = "del_inv",
                                                  !.tmp = Get(h[obj].data, th.dkey)]]
                 ELSE [h |-> h, th |-> Fail(th, "KeyError")]
          [] th.pc = "del_inv" ->
                 IF Has(h[inv].data, th.tmp)
                 THEN [h |-> [h EXCEPT ![inv].data = PlainDel(@, th.tmp)],
                       th |-> [th EXCEPT !.pc = "del_self"]]
                 ELSE [h |-> h, th |-> Fail(th, "KeyError")]
          [] th.pc = "del_self" ->
                 IF Has(h[obj].data, th.dkey)
                 THEN [h |-> [h EXCEPT ![obj].data = PlainDel(@, th.dkey)],
                       th |-> Return(th, th.ret)]
                 ELSE [h |-> h, th |-> Fail(th, "KeyError")]

\* the thread enters  del obj[key]  and comes back at ret
Call(th, obj, key, ret) ==
    [th EXCEPT !.pc = "del_read", !.dobj = obj, !.dkey = key, !.ret = ret]

\* Variant: the old partner of value is not evicted from self.inverse.
PairedDict_setitem_step_noevict(h, th) ==
    LET self == th.self
        inv == h[self].inverse
    IN  CASE th.pc = "set_test_key" ->
                 IF Has(h[self].data, th.key)
                 THEN [h |-> h, th |-> Call(th, self, th.key, "set_test_value")]
                 ELSE [h |-> h, th |-> [th EXCEPT !.pc = "set_test_value"]]
          [] th.pc = "set_test_value" ->
                 [h |-> h, th |-> [th EXCEPT !.pc = "set_inv"]]
          [] th.pc = "set_inv" ->
                 [h |-> [h EXCEPT ![inv].data = PlainSet(@, th.value, th.key)],
                  th |-> [th EXCEPT !.pc = "set_self"]]
          [] th.pc = "set_self" ->
                 [h |-> [h EXCEPT ![self].data = PlainSet(@, th.key, th.value)],
                  th |-> Return(th, "done")]

\* PairedDict.__setitem__ of a formed object, one dict access at a time:
\*   set_test_key    if key in self.keys(): del self[key]
\*   set_test_value  if value in self.inverse.keys(): del self.inverse[value]
\*   set_inv         super(self.inverse).__setitem__(value, key)
\*   set_self        super().__setitem__(key, value)
PairedDict_setitem_step(h, th) ==
    LET self == th.self
        inv == h[self].inverse
    IN  CASE th.pc = "set_test_key" ->
                 IF Has(h[self].data, th.key)
                 THEN [h |-> h, th |-> Call(th, self, th.key, "set_test_value")]
                 ELSE [h |-> h, th |-> [th EXCEPT !.pc = "set_test_value"]]
          [] th.pc = "set_test_value" ->
                 IF Has(h[inv].data, th.value)
                 THEN [h |-> h, th |-> Call(th, inv, th.value, "set_inv")]
                 ELSE [h |-> h, th |-> [th EXCEPT !.pc = "set_inv"]]
          [] th.pc = "set_inv" ->
                 [h |-> [h EXCEPT ![inv].data = PlainSet(@, th.value, th.key)],
                  th |-> [th EXCEPT !.pc = "set_self"]]
          [] th.pc = "set_self" ->
                 [h |-> [h EXCEPT ![self].data = PlainSet(@, th.key, th.value)],
                  th |-> Return(th, "done")]

Running(th) == th.pc \notin {"idle", "done", "failed"}

\* another thread is inside an operation
OthersRunning(t) == \E u \in Threads \ {t} : Running(threads[u])

ThreadStep(t, r) ==
    /\ heap' = r.h
    /\ threads' = [threads EXCEPT ![t] = r.th]
    /\ input' = << >>
    /\ prev' = << >>
    /\ last' = [NoOp EXCEPT !.op = "thread"]
    /\ UNCHANGED <<bm, pd, dicts, displays>>

\* thread t calls  m.fwd[key] = value
StartSet(t, key, value) ==
    /\ bm # << >>
    /\ threads[t].pc = "idle"
    /\ ThreadStep(t, [h |-> heap,
                      th |-> [threads[t] EXCEPT !.pc = "set_test_key",
                                  !.self = fwd(bm), !.key = key, !.value = value,
                                  !.overlap = OthersRunning(t)]])

\* thread t calls  del m.fwd[key]
StartDel(t, key) ==
    /\ bm # << >>
    /\ threads[t].pc = "idle"
    /\ ThreadStep(t, [h |-> heap,
                      th |-> [Call(threads[t], fwd(bm), key, "done") EXCEPT
                                  !.self = fwd(bm), !.key = key,
                                  !.overlap = OthersRunning(t)]])

\* thread t executes the statement it is at
Step(t) ==
    /\ Running(threads[t])
    /\ ThreadStep(t, IF threads[t].pc \in {"del_read", "del_inv", "del_self"}
                     THEN PairedDict_delitem_step(heap, threads[t])
                     ELSE PairedDict_setitem_step(heap, threads[t]))

NextThreads ==
    \/ last.op = "none" /\ \E args \in PairLists : NewBijectiveMap(args)
    \/ \E t \in Threads, key \in Keys, value \in Keys : StartSet(t, key, value)
    \/ \E t \in Threads, key \in Keys : StartDel(t, key)
    \/ \E t \in Threads : Step(t)

SpecThreads == Init /\ [][NextThreads]_vars

\* thread t is the only one that has started an operation
Alone(t) == \A u \in Threads \ {t} : threads[u].pc = "idle"

(* C19: set and delete are not atomic.  While one thread alone runs a set  *)
(* or a delete on a consistent map, a second thread that reads both maps   *)
(* between the two dict writes of the operation (after the inverse has     *)
(* been written and before self has) sees forward and backward that are    *)
(* not inverses; before the operation, between its other steps and after   *)
(* it (also after it failed) they are inverses.                            *)
C19_NotAtomic ==
    bm # << >> =>
        \A t \in Threads :
            Alone(t) =>
                (threads[t].pc \in {"del_self", "set_self"}
                    <=> ~InverseConsistent(heap[fwd(bm)].data, heap[bwd(bm)].data))

\* a lone thread inside a set, the backward entry written, the forward not yet
C19_Witness ==
    /\ bm # << >>
    /\ Alone(1)
    /\ threads[1].pc = "set_self"
    /\ Has(heap[bwd(bm)].data, threads[1].value)
    /\ ~Has(heap[fwd(bm)].data, threads[1].key)

\* every thread is outside an operation
Quiescent == \A t \in Threads : ~Running(threads[t])

\* no operation started while another was running
OneAtATime == \A t \in Threads : ~threads[t].overlap

(* C20: two sets that interleave can both complete and leave the invariant *)
(* violated, e.g. two keys mapped to one value; when every operation runs  *)
(* as one indivisible step (none starts while another is running) no such  *)
(* state is reachable: once the threads are done the maps are inverses.    *)
C20_SerialConsistent ==
    (bm # << >> /\ Quiescent /\ OneAtATime) =>
        InverseConsistent(heap[fwd(bm)].data, heap[bwd(bm)].data)

\* two interleaved sets have both completed and two keys map to one value
C20_Witness ==
    /\ bm # << >>
    /\ \A t \in Threads : threads[t].pc = "done" /\ threads[t].value # 0
    /\ ~OneAtATime
    /\ \E i, j \in 1..Len(heap[fwd(bm)].data) :
           /\ i # j
           /\ heap[fwd(bm)].data[i][2] = heap[fwd(bm)].data[j][2]
    /\ ~InverseConsistent(heap[fwd(bm)].data, heap[bwd(bm)].data)

-----------------------------------------------------------------------------
(* The same caller over three keys: a BijectiveMap built from a short list *)
(* of pairs over LookupKeys, then sets and deletes through its two views.  *)
(* Three keys are what it takes for a set to displace a pair and leave     *)
(* another one alone, or to move a key past two others.                    *)
NextWide ==
    \/ last.op = "none" /\ \E args \in LookupLists : NewBijectiveMap(args)
    \/ \E self \in Views, key \in LookupKeys, value \in LookupKeys :
           DictSet(self, key, value)
    \/ \E self \in Views, key \in LookupKeys : DictDel(self, key)

SpecWide == Init /\ [][NextWide]_vars

\* the pairs of dict d with key other than k and value other than v
Apart(d, k, v) == {p \in PairsOf(d) : p[1] # k /\ p[2] # v}

(* C27: frame of guarded mutation.  On a consistent pair, set(k, v) leaves *)
(* in both maps every pair whose key is not k and whose value is not v,    *)
(* and delete(k) every pair other than (k, forward[k]); after set(k, v)    *)
(* both maps have the old size, minus one if k was present, minus one if   *)
(* v was present paired with a key other than k, plus one.                 *)
C27_Frame ==
    (last.op \in {"set", "del"} /\ last.result = "ok"
        /\ FormedConsistent(prev, Target)) =>
        LET f == prev[Target].data
            b == prev[TargetInv].data
            f2 == heap[Target].data
            b2 == heap[TargetInv].data
            k == last.key
        IN  IF last.op = "set"
            THEN LET v == last.value
                     size == Len(f)
                             - (IF Has(f, k) THEN 1 ELSE 0)
                             - (IF Has(b, v) /\ Get(b, v) # k THEN 1 ELSE 0)
                             + 1
                 IN  /\ Apart(f2, k, v) = Apart(f, k, v)
                     /\ Apart(b2, v, k) = Apart(b, v, k)
                     /\ Len(f2) = size /\ Len(b2) = size
            ELSE /\ PairsOf(f2) = PairsOf(f) \ {<<k, Get(f, k)>>}
                 /\ PairsOf(b2) = PairsOf(b) \ {<<Get(f, k), k>>}
                 /\ Len(f2) = Len(f) - 1 /\ Len(b2) = Len(b) - 1

\* a set that took the value of another key and left a third pair alone
C27_Witness ==
    /\ last.op = "set" /\ last.result = "ok"
    /\ FormedConsistent(prev, Target)
    /\ ~Has(prev[Target].data, last.key)
    /\ Has(prev[TargetInv].data, last.value)
    /\ Len(prev[Target].data) = 2
    /\ Len(heap[Target].data) = 2
    /\ Apart(prev[Target].data, last.key, last.value) # {}
    /\ Apart(heap[Target].data, last.key, last.value) # {}

(* C28: set is idempotent on a consistent pair.  set(k, v) when k is       *)
(* already paired with v leaves the set of pairs of both maps unchanged,   *)
(* and a second set(k, v) right after a first gives the same pairs in both *)
(* maps as the first alone.                                                *)
C28_Idempotent ==
    (last.op = "set" /\ FormedConsistent(prev, Target)) =>
        LET again == PairedDict_setitem(heap, Target, last.key, last.value)
        IN  /\ last.result = "ok" /\ again.err = "ok"
            /\ PairsOf(again.h[Target].data) = PairsOf(heap[Target].data)
            /\ PairsOf(again.h[TargetInv].data) = PairsOf(heap[TargetInv].data)
            /\ (Has(prev[Target].data, last.key)
                  /\ Get(prev[Target].data, last.key) = last.value) =>
                   /\ PairsOf(heap[Target].data) = PairsOf(prev[Target].data)
                   /\ PairsOf(heap[TargetInv].data) = PairsOf(prev[TargetInv].data)

\* a pair of a two-pair map was set again
C28_Witness ==
    /\ last.op = "set" /\ last.result = "ok"
    /\ FormedConsistent(prev, Target)
    /\ Len(prev[Target].data) = 2
    /\ Has(prev[Target].data, last.key)
    /\ Get(prev[Target].data, last.key) = last.value
    /\ Len(heap[Target].data) = 2

\* dict d without the entry of key k, the other entries in their order
Without(d, k) == SelectSeq(d, LAMBDA p : p[1] # k)

(* C29: iterating a map yields its pairs in insertion order, and a guarded *)
(* set(k, v) counts as delete-then-insert: (k, v) becomes the last pair of *)
(* the map also when k was present, and (v, k) the last pair of the        *)
(* inverse, while the pairs that stay keep their order; overwriting a key  *)
(* of a plain dict keeps its position.                                     *)
C29_InsertionOrder ==
    (last.op = "set" /\ last.result = "ok" /\ FormedConsistent(prev, Target)) =>
        LET f == prev[Target].data
            b == prev[TargetInv].data
            f2 == heap[Target].data
            b2 == heap[TargetInv].data
            k == last.key
            v == last.value
            kOld == IF Has(b, v) THEN Get(b, v) ELSE k
            vOld == IF Has(f, k) THEN Get(f, k) ELSE v
        IN  /\ f2 = Append(Without(Without(f, k), kOld), <<k, v>>)
            /\ b2 = Append(Without(Without(b, v), vOld), <<v, k>>)
            /\ Has(f, k) => /\ Len(PlainSet(f, k, v)) = Len(f)
                            /\ \A i \in 1..Len(f) : PlainSet(f, k, v)[i][1] = f[i][1]

\* the first key of a three-pair map was set to a new value and moved last
C29_Witness ==
    /\ last.op = "set" /\ last.result = "ok"
    /\ FormedConsistent(prev, Target)
    /\ Len(prev[Target].data) = 3
    /\ prev[Target].data[1][1] = last.key
    /\ Len(heap[Target].data) = 2
    /\ heap[Target].data[2] = <<last.key, last.value>>
    /\ heap[Target].data[1] = prev[Target].data[3]

-----------------------------------------------------------------------------
(* The helper functions on plain dicts: update_new, pop_new and the        *)
(* context manager updated.  A caller calls one of them on dicts over      *)
(* Keys; the keywords are a dict as well (their names are keys).           *)

\* dict.setdefault(k, v), for its effect on the dict
setdefault(d, k, v) == IF Has(d, k) THEN d ELSE PlainSet(d, k, v)

\* dict.update(pairs): d[k] = v for each pair, a mapping or a list of pairs
RECURSIVE dict_update(_, _)
dict_update(d, pairs) ==
    IF pairs = << >> THEN d
    ELSE dict_update(PlainSet(d, Head(pairs)[1], Head(pairs)[2]), Tail(pairs))

\* for k in src (from its i-th key on): d.setdefault(k, src[k])
RECURSIVE SetDefaultEach(_, _, _)
SetDefaultEach(d, src, i) ==
    IF i > Len(src) THEN d
    ELSE SetDefaultEach(setdefault(d, src[i][1], Get(src, src[i][1])), src, i + 1)

\* for k, val in pairs: if k not in d: d[k] = val
RECURSIVE SetAbsentEach(_, _)
SetAbsentEach(d, pairs) ==
    IF pairs = << >> THEN d
    ELSE SetAbsentEach(IF ~Has(d, Head(pairs)[1])
                       THEN PlainSet(d, Head(pairs)[1], Head(pairs)[2]) ELSE d,
                       Tail(pairs))

\* mapping: update_from is a Mapping; otherwise an iterable of pairs
update_new(to_update, update_from, mapping, kwds) ==
    SetDefaultEach(IF mapping THEN SetDefaultEach(to_update, update_from, 1)
                   ELSE SetAbsentEach(to_update, update_from),
                   kwds, 1)

\* the loop of pop_new.  The dict iterator over pop_from, made when pop_from
\* had n entries, raises RuntimeError when asked for the next key after the
\* size of pop_from has changed; i is the position of the next key.
RECURSIVE pop_new_loop(_, _, _, _)
pop_new_loop(to_update, pop_from, i, n) ==
    IF Len(pop_from) # n
    THEN [to_update |-> to_update, pop_from |-> pop_from, err |-> "RuntimeError"]
    ELSE IF i > n
    THEN [to_update |-> to_update, pop_from |-> pop_from, err |-> "ok"]
    ELSE IF ~Has(to_update, pop_from[i][1])
    THEN pop_new_loop(PlainSet(to_update, pop_from[i][1], pop_from[i][2]),
                      PlainDel(pop_from, pop_from[i][1]), i + 1, n)
    ELSE pop_new_loop(to_update, pop_from, i + 1, n)

pop_new(to_update, pop_from) == pop_new_loop(to_update, pop_from, 1, Len(pop_from))

\* Variant: original is copied after base has been updated.
updated_enter_late(base, extra, kwds) ==
    [original |-> dict_update(dict_update(base, extra), kwds),
     base |-> dict_update(dict_update(base, extra), kwds)]

\* updated, up to its yield: original = base.copy(); base.update(extra, **kwds)
updated_enter(base, extra, kwds) ==
    [original |-> base, base |-> dict_update(dict_update(base, extra), kwds)]

\* updated, its finally clause: base.clear(); base.update(original)
updated_exit(base, original) == dict_update(<< >>, original)

KwDicts == {d \in SortedDicts : Len(d) <= MaxKwds}

\* an iterable of pairs: keys may repeat
ShortLists == UNION {[1..n -> Pair] : n \in 0..MaxKey}

\* update_new(to_update, update_from, **kwds)
UpdateNew(to_update, update_from, mapping, kwds) ==
    /\ dicts.op = "none"
    /\ dicts' = [op |-> "update_new", to_update |-> to_update,
                 update_from |-> update_from, kwds |-> kwds,
                 result |-> update_new(to_update, update_from, mapping, kwds)]
    /\ UNCHANGED <<heap, bm, pd, input, threads, displays, prev, last>>

\* pop_new(to_update, pop_from)
PopNew(to_update, pop_from) ==
    /\ dicts.op = "none"
    /\ dicts' = [op |-> "pop_new", to_update |-> to_update, pop_from |-> pop_from,
                 result |-> pop_new(to_update, pop_from)]
    /\ UNCHANGED <<heap, bm, pd, input, threads, displays, prev, last>>

\* with updated(base, extra, **kwds) as modified: the body starts.  before is
\* base as the caller passed it, left is base as the body left it.
UpdatedEnter(base, extra, kwds) ==
    /\ dicts.op = "none"
    /\ LET r == updated_enter(base, extra, kwds) IN
       dicts' = [op |-> "updated", pc |-> "entered", before |-> base,
                 extra |-> extra, kwds |-> kwds, left |-> << >>,
                 original |-> r.original, base |-> r.base]
    /\ UNCHANGED <<heap, bm, pd, input, threads, displays, prev, last>>

InBody == dicts.op = "updated" /\ dicts.pc \in {"entered", "body"}

\* a statement of the body: modified[key] = value
BodySet(key, value) ==
    /\ InBody
    /\ dicts' = [dicts EXCEPT !.pc = "body", !.extra = << >>, !.kwds = << >>,
                              !.base = PlainSet(@, key, value)]
    /\ UNCHANGED <<heap, bm, pd, input, threads, displays, prev, last>>

\* a statement of the body: del modified[key]
BodyDel(key) ==
    /\ InBody
    /\ Has(dicts.base, key)
    /\ dicts' = [dicts EXCEPT !.pc = "body", !.extra = << >>, !.kwds = << >>,
                              !.base = PlainDel(@, key)]
    /\ UNCHANGED <<heap, bm, pd, input, threads, displays, prev, last>>

\* the body ends, normally or by raising: the finally clause of updated runs
UpdatedExit(raised) ==
    /\ InBody
    /\ dicts' = [dicts EXCEPT !.pc = IF raised THEN "raised" ELSE "exited",
                              !.extra = << >>, !.kwds = << >>,
                              !.left = dicts.base,
                              !.base = updated_exit(dicts.base, dicts.original)]
    /\ UNCHANGED <<heap, bm, pd, input, threads, displays, prev, last>>

NextDicts ==
    \/ dicts.op = "none" /\ \E to_update \in SortedDicts, kwds \in KwDicts :
           \/ \E update_from \in SortedDicts :
                  UpdateNew(to_update, update_from, TRUE, kwds)
           \/ \E update_from \in ShortLists :
                  UpdateNew(to_update, update_from, FALSE, kwds)
    \/ dicts.op = "none" /\ \E to_update \in SortedDicts, pop_from \in SortedDicts :
           PopNew(to_update, pop_from)
    \/ dicts.op = "none" /\ \E base \in SortedDicts, extra \in SortedDicts,
                               kwds \in KwDicts : UpdatedEnter(base, extra, kwds)
    \/ \E key \in Keys, value \in Keys : BodySet(key, value)
    \/ \E key \in Keys : BodyDel(key)
    \/ \E raised \in BOOLEAN : UpdatedExit(raised)

SpecDicts == Init /\ [][NextDicts]_vars

(* C23: update_new only adds keys that were absent from to_update (the     *)
(* values of the keys already present never change), and for a new key     *)
(* that occurs both in update_from and in the keywords the keyword value   *)
(* overrules the update_from value.                                        *)
C23_UpdateNew ==
    dicts.op = "update_new" =>
        /\ \A k \in KeysOf(dicts.to_update) :
               Get(dicts.result, k) = Get(dicts.to_update, k)
        /\ \A k \in Keys \ KeysOf(dicts.to_update) :
               (Has(dicts.update_from, k) /\ Has(dicts.kwds, k)) =>
                   Get(dicts.result, k) = Get(dicts.kwds, k)

(* C24: the context updated(base, extra, **kwds) yields base updated with  *)
(* extra and the keywords (a keyword wins over extra, extra over base),    *)
(* and when the context exits, normally or through an exception raised in  *)
(* the body, base holds exactly the entries it held before entry, in their *)
(* order, whatever keys the body added, changed or removed.                *)
C24_UpdatedRestores ==
    dicts.op = "updated" =>
        /\ dicts.pc = "entered" =>
               /\ KeysOf(dicts.base) = KeysOf(dicts.before)
                      \cup KeysOf(dicts.extra) \cup KeysOf(dicts.kwds)
               /\ \A k \in KeysOf(dicts.base) :
                      Get(dicts.base, k) =
                          IF Has(dicts.kwds, k) THEN Get(dicts.kwds, k)
                          ELSE IF Has(dicts.extra, k) THEN Get(dicts.extra, k)
                          ELSE Get(dicts.before, k)
        /\ dicts.pc \in {"exited", "raised"} => dicts.base = dicts.before

\* the body removed a key of base, changed another and raised
C24_Witness ==
    /\ dicts.op = "updated" /\ dicts.pc = "raised"
    /\ Len(dicts.before) = 2
    /\ Len(dicts.left) = 1
    /\ Get(dicts.left, dicts.left[1][1]) # Get(dicts.before, dicts.left[1][1])
    /\ dicts.base = dicts.before

(* C25: pop_new(to_update, pop_from) completes for every pair of dicts and *)
(* moves every key that is in pop_from but not in to_update: afterwards    *)
(* to_update[k] is the old pop_from[k] and k is no longer in pop_from,     *)
(* while the keys present in both are left untouched in both.              *)
C25_PopNew ==
    dicts.op = "pop_new" =>
        /\ dicts.result.err = "ok"
        /\ \A k \in KeysOf(dicts.pop_from) :
               IF Has(dicts.to_update, k)
               THEN /\ Get(dicts.result.to_update, k) = Get(dicts.to_update, k)
                    /\ Has(dicts.result.pop_from, k)
                    /\ Get(dicts.result.pop_from, k) = Get(dicts.pop_from, k)
               ELSE /\ Has(dicts.result.to_update, k)
                    /\ Get(dicts.result.to_update, k) = Get(dicts.pop_from, k)
                    /\ ~Has(dicts.result.pop_from, k)

-----------------------------------------------------------------------------
(* Construction.  A caller builds a map with the plain constructor, with   *)
(* or without a map it built before as inverse and with or without the     *)
(* __secret keyword, or builds a pair with make_pairs from a list of pairs *)
(* and keywords, and may then call fix_me or fix_inverse on any of the     *)
(* objects.  The name 'inverse' may be a key of the list and a keyword.    *)

\* x = PairedDict(d), the map a later call is given as inverse
Given(d) ==
    /\ last.op = "none"
    /\ LET r == PairedDict_init(heap, d, None, FALSE) IN
       /\ heap' = r.h
       /\ pd' = r.self
       /\ last' = [op |-> "given", obj |-> r.self, key |-> 0, value |-> 0,
                   result |-> "ok"]
    /\ input' = << >>
    /\ prev' = heap
    /\ UNCHANGED <<bm, threads, dicts, displays>>

\* p = PairedDict(args, inverse=inverse, __secret=secret)
Construct(args, inverse, secret) ==
    /\ last.op \in {"none", "given"}
    /\ LET r == PairedDict_init(heap, args, inverse, secret) IN
       /\ heap' = r.h
       /\ pd' = r.self
       /\ last' = [op |-> "construct", obj |-> r.self, key |-> 0, value |-> 0,
                   result |-> "ok", inverse |-> inverse, secret |-> secret]
    /\ input' = args
    /\ prev' = heap
    /\ UNCHANGED <<bm, threads, dicts, displays>>

\* fwd, bwd = PairedDict.make_pairs(args, **kwds)
MakePairs(args, kwds) ==
    /\ last.op = "none"
    /\ LET r == make_pairs(heap, args, kwds) IN
       /\ heap' = r.h
       /\ pd' = r.fwd
       /\ last' = [op |-> "make_pairs", obj |-> r.fwd, key |-> 0, value |-> 0,
                   result |-> r.err, kwds |-> kwds]
    /\ input' = args
    /\ prev' = heap
    /\ UNCHANGED <<bm, threads, dicts, displays>>

Built == last.op \in {"given", "construct", "make_pairs"}

\* d.fix_me() on an object built before
ThenFixMe(self) ==
    /\ Built
    /\ LET r == fix_me(heap, self) IN
       /\ heap' = r.h
       /\ last' = [op |-> "fix_me", obj |-> self, key |-> 0, value |-> 0,
                   result |-> r.err]
    /\ prev' = heap
    /\ UNCHANGED <<bm, pd, input, threads, dicts, displays>>

\* d.fix_inverse() on an object built before
ThenFixInverse(self) ==
    /\ Built
    /\ LET r == fix_inverse(heap, self) IN
       /\ heap' = r.h
       /\ last' = [op |-> "fix_inverse", obj |-> self, key |-> 0, value |-> 0,
                   result |-> r.err]
    /\ prev' = heap
    /\ UNCHANGED <<bm, pd, input, threads, dicts, displays>>

\* a short list of pairs over Keys
FewPairs == UNION {[1..n -> Pair] : n \in 0..MaxKwds}

\* a short list of pairs whose keys may be the name 'inverse'
NamedPairs == UNION {[1..n -> (Keys \cup {InverseName}) \X Keys] : n \in 0..MaxKwds}

\* keyword arguments: the names are distinct
Keywords == {d \in NamedPairs : \A i, j \in 1..Len(d) : i # j => d[i][1] # d[j][1]}

NextConstruct ==
    \/ last.op = "none" /\ \E d \in SortedDicts : Given(d)
    \/ last.op \in {"none", "given"} /\
           \E args \in FewPairs, inverse \in {None} \cup DOMAIN heap,
              secret \in BOOLEAN : Construct(args, inverse, secret)
    \/ last.op = "none" /\ \E args \in NamedPairs, kwds \in Keywords :
           MakePairs(args, kwds)
    \/ \E self \in DOMAIN heap : ThenFixMe(self)
    \/ \E self \in DOMAIN heap : ThenFixInverse(self)

SpecConstruct == Init /\ [][NextConstruct]_vars

\* the objects made by the last constructor call: one per call of __init__
Made == (Len(prev) + 1)..Len(heap)

(* C21: construction always terminates and makes at most one further      *)
(* constructor call, in secret mode: the secret-mode object takes the      *)
(* primary as its inverse and constructs no third object, whether or not   *)
(* the caller supplied an inverse.                                         *)
C21_AtMostOneMore ==
    last.op = "construct" =>
        /\ Cardinality(Made) \in {1, 2}
        /\ last.obj = Len(prev) + 1
        /\ Cardinality(Made) = 2 =>
               /\ heap[Len(heap)].inverse = last.obj
               /\ heap[last.obj].inverse = Len(heap)
        /\ (last.secret /\ last.inverse # None) <=> Cardinality(Made) = 1

\* a map was built with a map built before as its inverse
C21_Witness ==
    /\ last.op = "construct"
    /\ last.inverse # None /\ ~last.secret
    /\ heap[last.inverse].data # << >>
    /\ input # << >>
    /\ Cardinality(Made) = 2

(* C22: make_pairs called with 'inverse' among its keywords fails with     *)
(* ValueError before any map is constructed, so that the name 'inverse'    *)
(* never becomes a key of a map built by make_pairs and is never taken as  *)
(* a pre-built inverse.                                                    *)
C22_ReservedName ==
    last.op = "make_pairs" =>
        /\ Has(last.kwds, InverseName) =>
               last.result = "ValueError" /\ heap = prev
        /\ last.result = "ok" =>
               /\ ~Has(heap[last.obj].data, InverseName)
               /\ heap[last.obj].inverse \in Made

(* C26: the formed flag is off only while the constructor or fix_me runs:  *)
(* after the constructor, fix_me, fix_inverse or make_pairs has returned   *)
(* or raised, every map has formed = TRUE, so a later set of any key of    *)
(* any of the maps takes the guarded path and writes the inverse as well.  *)
C26_FormedAfter ==
    Built \/ last.op \in {"fix_me", "fix_inverse"} =>
        \A o \in DOMAIN heap :
            /\ heap[o].formed
            /\ heap[o].inverse # None
            /\ \A key \in Keys, value \in Keys :
                   Let(PairedDict_setitem(heap, o, key, value), LAMBDA r :
                       r.err = "ok" =>
                           /\ Has(r.h[heap[o].inverse].data, value)
                           /\ Get(r.h[heap[o].inverse].data, value) = key)

\* fix_me found the map not to be the inverse of its inverse and updated
\* it inside _unformed
C26_Witness ==
    /\ last.op = "fix_me" /\ last.result = "ok"
    /\ check_inverse(prev, last.obj) = "False"
    /\ \A o \in DOMAIN heap : heap[o].formed

-----------------------------------------------------------------------------
(* DisplayTemporary.  displays holds the class attributes debug and        *)
(* _nactive and, for each instance, _state['numchar'], _state['nest_level']*)
(* and the instance attribute _nactive, the last two with a flag telling   *)
(* whether they have been assigned, and begun, whether _state['clean'] has *)
(* been assigned, which begin() does.  Printing has no effect on the       *)
(* state.  The caller calls update() and end() only on displays on which   *)
(* it has called begin().                                                  *)

\* the lengths of the messages displayed
MsgLens == {0, 1}

\* DisplayTemporary(): _state = dict(numchar=0)
NewInstance ==
    [numchar |-> 0, begun |-> FALSE, has_level |-> FALSE, nest_level |-> 0,
     has_nactive |-> FALSE, nactive |-> 0]

\* self._nactive: the instance attribute if one was assigned, else the
\* class attribute
Read_nactive(D, self) ==
    IF D.objs[self].has_nactive THEN D.objs[self].nactive ELSE D.nactive

\* self._nactive = n assigns an attribute of the instance
Write_nactive(D, self, n) ==
    [D EXCEPT !.objs[self].has_nactive = TRUE, !.objs[self].nactive = n]

\* _check: the error raised, or "ok".  The message of the IndexError is
\* built from self._state['prefix'], a key that is never set.
DisplayTemporary_check(D, self) ==
    IF ~D.objs[self].has_level THEN "KeyError"
    ELSE IF D.objs[self].nest_level # Read_nactive(D, self) THEN "KeyError"
    ELSE "ok"

\* Returns [D |-> the class and instances afterwards, err |-> error or "ok"]
DisplayTemporary_begin(D, self, len) ==
    IF D.objs[self].numchar # 0 THEN [D |-> D, err |-> "AttributeError"]
    ELSE Let([D EXCEPT !.objs[self].numchar = len + 1,
                       !.objs[self].begun = TRUE], LAMBDA D1 :
         IF ~D1.debug THEN [D |-> D1, err |-> "ok"]
         ELSE Let(Write_nactive(D1, self, Read_nactive(D1, self) + 1), LAMBDA D2 :
              Let([D2 EXCEPT !.objs[self].has_level = TRUE,
                             !.objs[self].nest_level = Read_nactive(D2, self)],
                  LAMBDA D3 : [D |-> D3, err |-> DisplayTemporary_check(D3, self)])))

DisplayTemporary_update(D, self, len) ==
    Let([D EXCEPT !.objs[self].numchar = len + 1], LAMBDA D1 :
    [D |-> D1, err |-> IF D1.debug THEN DisplayTemporary_check(D1, self) ELSE "ok"])

DisplayTemporary_end(D, self) ==
    Let([D EXCEPT !.objs[self].numchar = 0], LAMBDA D1 :
    [D |-> IF D1.debug THEN Write_nactive(D1, self, Read_nactive(D1, self) - 1)
           ELSE D1,
     err |-> "ok"])

\* DisplayTemporary.debug = b, before any method is called
SetDebug(b) ==
    /\ displays.call.op = "none"
    /\ displays.debug # b
    /\ displays' = [displays EXCEPT !.debug = b]
    /\ UNCHANGED <<heap, bm, pd, input, threads, dicts, prev, last>>

\* d = DisplayTemporary()
NewDisplay ==
    /\ Len(displays.objs) < MaxDisplays
    /\ displays' = [displays EXCEPT !.objs = Append(@, NewInstance)]
    /\ UNCHANGED <<heap, bm, pd, input, threads, dicts, prev, last>>

\* the record of a method call: the instances before it, the method, the
\* instance and the outcome
Called(r, op, self) ==
    [r.D EXCEPT !.before = displays.objs,
                !.call = [op |-> op, obj |-> self, result |-> r.err]]

\* d.begin(msg)
Begin(self, len) ==
    /\ displays' = Called(DisplayTemporary_begin(displays, self, len), "begin", self)
    /\ UNCHANGED <<heap, bm, pd, input, threads, dicts, prev, last>>

\* d.update(msg)
Update(self, len) ==
    /\ displays.objs[self].begun
    /\ displays' = Called(DisplayTemporary_update(displays, self, len), "update", self)
    /\ UNCHANGED <<heap, bm, pd, input, threads, dicts, prev, last>>

\* d.end(); the count is kept above -MaxDepth
End(self) ==
    /\ displays.objs[self].begun
    /\ Read_nactive(displays, self) > 0 - MaxDepth
    /\ displays' = Called(DisplayTemporary_end(displays, self), "end", self)
    /\ UNCHANGED <<heap, bm, pd, input, threads, dicts, prev, last>>

NextDisplays ==
    \/ \E b \in BOOLEAN : SetDebug(b)
    \/ NewDisplay
    \/ \E self \in DOMAIN displays.objs, len \in MsgLens : Begin(self, len)
    \/ \E self \in DOMAIN displays.objs, len \in MsgLens : Update(self, len)
    \/ \E self \in DOMAIN displays.objs : End(self)

SpecDisplays == Init /\ [][NextDisplays]_vars

\* the displays that show a message: begun, or updated, and not ended
Active(objs) == {d \in DOMAIN objs : objs[d].numchar # 0}

(* C30: with debug set to True the displays are checked for nesting: the   *)
(* count of active displays, as the instance called reads it, grows by one *)
(* on each begin() and shrinks by one on each end() across all instances,  *)
(* and a begin() or update() on a display whose recorded nesting level     *)
(* differs from the count of active displays raises IndexError.            *)
C30_NestingChecked ==
    displays.debug =>
        LET c == displays.call
            n == Cardinality(Active(displays.before))
        IN  /\ (c.op = "begin" /\ c.result = "ok") =>
                   Read_nactive(displays, c.obj) = n + 1
            /\ (c.op = "end" /\ c.obj \in Active(displays.before)) =>
                   Read_nactive(displays, c.obj) = n - 1
            /\ (/\ c.op = "update"
                /\ c.obj \in Active(displays.before)
                /\ displays.before[c.obj].nest_level # n) =>
                   c.result = "IndexError"

=============================================================================
